---- MODULE Spec2Model ----
(***************************************************************************)
(* A model of koa-convert (src/index.js): convert, convert.back,           *)
(* convert.compose and convert.mount, together with the run-time behaviour *)
(* of the callables they produce.                                          *)
(*                                                                         *)
(* Function objects are records (their identity is their structure), the   *)
(* closure variables of one invocation live in heaps (called, comps, gens) *)
(* and a request is executed by tasks: a task is a control state plus a    *)
(* stack of frames that wait for the callee's promise to settle.           *)
(* Strings that the code slices (paths, prefixes) are sequences of         *)
(* one-character strings.                                                  *)
(***************************************************************************)
EXTENDS Integers, Sequences, FiniteSets, TLC

VARIABLES
    api,      \* the last call of the public API: operation, argument, result
    ctxs,     \* the context object of each chain: path and mountPath
    call,     \* per chain, what the middlewares recorded, in order
    tasks,    \* the flows of control: chain, control state, stack of frames
    called,   \* heap of the `called` flags of convert.back invocations
    comps,    \* heap of koa-compose invocations: middleware, index, next
    gens,     \* heap of createGenerator(next) objects: state and next
    result,   \* per chain, how the promise of the request settled
    req       \* per chain, the request that was made

vars == <<api, ctxs, call, tasks, called, comps, gens, result, req>>

-----------------------------------------------------------------------------
(* Bounds *)

\* longest list of onion middlewares given to convert.compose
MaxLen == 3
\* longest request path, in characters
MaxPathLen == 4
\* most flows of control started in one run
MaxTasks == 4
\* longest mount prefix match is tried on, in characters
MaxPrefixLen == 3

-----------------------------------------------------------------------------
(* Strings as sequences of characters *)

Slash == "/"

Chars == {Slash, "a", "b"}

RECURSIVE StrsOfLen(_)
StrsOfLen(n) ==
    IF n = 0 THEN {<<>>}
    ELSE {Append(s, ch) : s \in StrsOfLen(n - 1), ch \in Chars}

StrsUpTo(n) == UNION {StrsOfLen(k) : k \in 0..n}

\* String.prototype.indexOf(prefix) === 0
StartsWith(path, prefix) ==
    /\ Len(prefix) <= Len(path)
    /\ \A i \in 1..Len(prefix) : path[i] = prefix[i]

\* path.replace(prefix, '') when prefix occurs at offset 0
RemovePrefix(path, prefix) == SubSeq(path, Len(prefix) + 1, Len(path))

-----------------------------------------------------------------------------
(* Values *)

\* an Error object: its message and the middleware that created it (0: the
\* library itself)
Err(msg, by) == [msg |-> msg, by |-> by]

NoErr == Err("", 0)

MultipleCalls == Err("next() called multiple times", 0)

NotAFunction == Err("TypeError: next is not a function", 0)

\* how a call ended: its promise resolved, its promise rejected, or it threw
\* before returning a promise
Resolved == [st |-> "resolved", err |-> NoErr]

Rejected(e) == [st |-> "rejected", err |-> e]

Thrown(e) == [st |-> "thrown", err |-> e]

\* what try { ... } catch (err) { return Promise.reject(err) } and the
\* promise returned by co make of an outcome
AsPromise(out) == IF out.st = "thrown" THEN Rejected(out.err) ELSE out

\* a middleware written by the user of the library: `ctor` is its
\* constructor.name, `body` the statements it runs, `catches` whether it
\* catches the error of its continuation
User(id, ctor, body, catches) ==
    [kind |-> "user", ctor |-> ctor, id |-> id, name |-> "", _name |-> "",
     body |-> body, catches |-> catches]

Named(fn, name, uname) == [fn EXCEPT !.name = name, !._name = uname]

\* a value that is not a function
NonFunction == [kind |-> "value", name |-> "", _name |-> ""]

\* an exception thrown by a call of the API
ApiThrow(msg) == [kind |-> "error", msg |-> msg]

TypeOf(mw) == IF mw.kind \in {"value", "app"} THEN "object" ELSE "function"

\* mw.constructor.name
CtorName(mw) ==
    CASE mw.kind = "user" -> mw.ctor
      [] mw.kind = "back" -> "GeneratorFunction"
      [] mw.kind \in {"value", "app"} -> "Object"
      [] OTHER -> "Function"

\* b whatever a is
OrElseSecond(a, b) == b

\* a || b on strings
OrElse(a, b) == IF a # "" THEN a ELSE b

-----------------------------------------------------------------------------
(* The public API *)

\* convert that wraps whatever function it is given
ConvertAlwaysWraps(mw) ==
    IF TypeOf(mw) # "function"
    THEN ApiThrow("middleware must be a function")
    ELSE [kind |-> "converted", mw |-> mw, name |-> "converted",
          _name |-> OrElse(mw._name, mw.name)]

\* convert that takes every function for a promise-based middleware
ConvertNeverWraps(mw) ==
    IF TypeOf(mw) # "function"
    THEN ApiThrow("middleware must be a function")
    ELSE mw

\* convert without the typeof test
ConvertUnchecked(mw) ==
    IF CtorName(mw) # "GeneratorFunction"
    THEN mw
    ELSE [kind |-> "converted", mw |-> mw, name |-> "converted",
          _name |-> OrElse(mw._name, mw.name)]

\* convert(mw)

Convert(mw) ==
    IF TypeOf(mw) # "function"
    THEN ApiThrow("middleware must be a function")
    ELSE IF CtorName(mw) # "GeneratorFunction"
    THEN mw
    ELSE [kind |-> "converted", mw |-> mw, name |-> "converted",
          _name |-> OrElse(mw._name, mw.name)]

\* convert.back(mw)
Back(mw) ==
    IF TypeOf(mw) # "function"
    THEN ApiThrow("middleware must be a function")
    ELSE IF CtorName(mw) = "GeneratorFunction"
    THEN mw
    ELSE [kind |-> "back", mw |-> mw, name |-> "converted",
          _name |-> OrElse(mw._name, mw.name)]

\* compose(middleware) of koa-compose
KoaCompose(middleware) ==
    IF \E i \in DOMAIN middleware : TypeOf(middleware[i]) # "function"
    THEN ApiThrow("Middleware must be composed of functions!")
    ELSE [kind |-> "composed", middleware |-> middleware, name |-> "",
          _name |-> ""]

\* convert.compose(arr)
Compose(arr) ==
    IF \E i \in DOMAIN arr : Convert(arr[i]).kind = "error"
    THEN ApiThrow("middleware must be a function")
    ELSE KoaCompose([i \in DOMAIN arr |-> Convert(arr[i])])

\* a Koa application: an object with a middleware list
App(middleware) ==
    [kind |-> "app", middleware |-> middleware, name |-> "", _name |-> ""]

\* match(path) inside mount(prefix, app)
NoMatch == [matched |-> FALSE, newPath |-> <<>>]

\* match without the test that `/mount` does not match `/mountlkjalskjdf`
MatchLoose(prefix, trailingSlash, path) ==
    IF ~StartsWith(path, prefix) THEN NoMatch
    ELSE LET rest == RemovePrefix(path, prefix)
         IN  [matched |-> TRUE,
              newPath |-> IF rest = <<>> THEN <<Slash>> ELSE rest]

Match(prefix, trailingSlash, path) ==
    IF ~StartsWith(path, prefix) THEN NoMatch
    ELSE LET rest == RemovePrefix(path, prefix)
             newPath == IF rest = <<>> THEN <<Slash>> ELSE rest
         IN  IF trailingSlash THEN [matched |-> TRUE, newPath |-> newPath]
             ELSE IF newPath[1] # Slash THEN NoMatch
             ELSE [matched |-> TRUE, newPath |-> newPath]

\* mount without the early return for the prefix "/"
MountAlwaysWraps(prefix, app) ==
    IF prefix = <<>> \/ prefix[1] # Slash
    THEN ApiThrow("mount path must begin with \"/\"")
    ELSE LET downstream == IF app.kind = "app"
                           THEN KoaCompose(app.middleware)
                           ELSE app
         IN  [kind |-> "mounted", prefix |-> prefix,
              downstream |-> downstream,
              trailingSlash |-> (prefix[Len(prefix)] = Slash),
              name |-> "", _name |-> ""]

\* convert.mount(prefix, app) with a string prefix
Mount(prefix, app) ==
    IF prefix = <<>> \/ prefix[1] # Slash
    THEN ApiThrow("mount path must begin with \"/\"")
    ELSE LET downstream == IF app.kind = "app"
                           THEN KoaCompose(app.middleware)
                           ELSE app
         IN  IF prefix = <<Slash>> THEN downstream
             ELSE [kind |-> "mounted", prefix |-> prefix,
                   downstream |-> downstream,
                   trailingSlash |-> (prefix[Len(prefix)] = Slash),
                   name |-> "", _name |-> ""]

\* convert.mount(app): the prefix defaults to "/"
MountDefault(app) == Mount(<<Slash>>, app)

-----------------------------------------------------------------------------
(* Run-time values *)

Chains == {1, 2}

\* the continuation functions a middleware can be handed as `next`
NoNext == [k |-> "none"]

\* the caller's own next: records a marker and returns a settled promise
CallerNext(settle) == [k |-> "caller", settle |-> settle]

\* function next () { return dispatch(i + 1) } of koa-compose
DispatchNext(comp, i) == [k |-> "dispatch", comp |-> comp, i |-> i]

\* the function convert.back hands to the modern middleware
GuardNext(flag, ctx, next) ==
    [k |-> "guard", flag |-> flag, ctx |-> ctx, next |-> next]

\* the arrow function mount hands to downstream
MountNext(ctx, prev, newPath, upstream) ==
    [k |-> "mountnext", ctx |-> ctx, prev |-> prev, newPath |-> newPath,
     upstream |-> upstream]

\* the generator object createGenerator(next)
GenNext(g) == [k |-> "gen", g |-> g]

\* control states of a task
CallCtl(fn, ctx, next) == [op |-> "call", fn |-> fn, ctx |-> ctx, next |-> next]

InvokeCtl(next) == [op |-> "invoke", next |-> next]

CoCtl(next) == [op |-> "co", next |-> next]

BodyCtl(fn, ctx, next, pc, async) ==
    [op |-> "body", fn |-> fn, ctx |-> ctx, next |-> next, pc |-> pc,
     async |-> async]

RetCtl(out) == [op |-> "ret", out |-> out]

DoneCtl == [op |-> "done"]

\* frames: what happens when the callee's promise has settled
BodyFrame(fn, ctx, next, pc, async) ==
    [f |-> "body", fn |-> fn, ctx |-> ctx, next |-> next, pc |-> pc,
     async |-> async]

ForkFrame(fn, ctx, next, pc, async) ==
    [f |-> "fork", fn |-> fn, ctx |-> ctx, next |-> next, pc |-> pc,
     async |-> async]

PromiseFrame == [f |-> "promise"]

GenFrame(g) == [f |-> "gen", g |-> g]

MountThenFrame(ctx, prev) == [f |-> "mountthen", ctx |-> ctx, prev |-> prev]

UpstreamThenFrame(ctx, newPath) ==
    [f |-> "upthen", ctx |-> ctx, newPath |-> newPath]

\* an entry of the record the middlewares keep (the `call` arrays of the
\* tests), with the context the middleware was given and the path it saw
Entry(ev, id, ctx, err) ==
    [ev |-> ev, id |-> id, ctx |-> ctx, path |-> ctxs[ctx].path, err |-> err]

Top(stack) == stack[Len(stack)]

Pop(stack) == SubSeq(stack, 1, Len(stack) - 1)

HasFork(stack) == \E i \in DOMAIN stack : stack[i].f = "fork"

\* the innermost call made without awaiting its promise
LastFork(stack) ==
    CHOOSE i \in DOMAIN stack :
        /\ stack[i].f = "fork"
        /\ \A j \in DOMAIN stack : stack[j].f = "fork" => j <= i

AtWait(ctl) ==
    /\ ctl.op = "body"
    /\ ctl.pc <= Len(ctl.fn.body)
    /\ ctl.fn.body[ctl.pc] \in {"wait", "stall"}

-----------------------------------------------------------------------------
(* Initial state *)

Idle == [st |-> "idle", err |-> NoErr]

Pending == [st |-> "pending", err |-> NoErr]

NoReq == [fn |-> NonFunction, next |-> NoNext, path |-> <<>>]

NoApi == [op |-> "none", arg |-> NonFunction, res |-> NonFunction]

Init ==
    /\ api = NoApi
    /\ ctxs = [c \in Chains |-> [path |-> <<Slash>>, mountPath |-> <<>>]]
    /\ call = [c \in Chains |-> <<>>]
    /\ tasks = <<>>
    /\ called = <<>>
    /\ comps = <<>>
    /\ gens = <<>>
    /\ result = [c \in Chains |-> Idle]
    /\ req = [c \in Chains |-> NoReq]

\* a behaviour looks at one call of the API, or runs requests
NothingStarted == api = NoApi /\ \A c \in Chains : result[c] = Idle

SetTask(t, ctl, stack) ==
    tasks' = [tasks EXCEPT ![t].ctl = ctl, ![t].stack = stack]

Log(c, entry) == call' = [call EXCEPT ![c] = Append(@, entry)]

-----------------------------------------------------------------------------
(* Calls of the API *)

ApiConvert(mw) ==
    /\ NothingStarted
    /\ api' = [op |-> "convert", arg |-> mw, res |-> Convert(mw)]
    /\ UNCHANGED <<ctxs, call, tasks, called, comps, gens, result, req>>

ApiBack(mw) ==
    /\ NothingStarted
    /\ api' = [op |-> "back", arg |-> mw, res |-> Back(mw)]
    /\ UNCHANGED <<ctxs, call, tasks, called, comps, gens, result, req>>

\* the mounted callable of mount(prefix, app) computes match(ctx.path)
ApiMatch(prefix, path) ==
    /\ NothingStarted
    /\ api' = [op |-> "match", arg |-> [prefix |-> prefix, path |-> path],
               res |-> Match(prefix, prefix[Len(prefix)] = Slash, path)]
    /\ UNCHANGED <<ctxs, call, tasks, called, comps, gens, result, req>>

ApiCompose(arr) ==
    /\ NothingStarted
    /\ api' = [op |-> "compose", arg |-> [arr |-> arr], res |-> Compose(arr)]
    /\ UNCHANGED <<ctxs, call, tasks, called, comps, gens, result, req>>

ApiMount(prefix, app) ==
    /\ NothingStarted
    /\ api' = [op |-> "mount", arg |-> [prefix |-> prefix, app |-> app],
               res |-> Mount(prefix, app)]
    /\ UNCHANGED <<ctxs, call, tasks, called, comps, gens, result, req>>

\* mount(app): the first argument is not a string
ApiMountDefault(app) ==
    /\ NothingStarted
    /\ api' = [op |-> "mountdefault", arg |-> [app |-> app],
               res |-> MountDefault(app)]
    /\ UNCHANGED <<ctxs, call, tasks, called, comps, gens, result, req>>

\* a request: the callable fn is invoked as fn(ctx, next) with ctx.path = path
Request(c, fn, next, path) ==
    /\ result[c] = Idle
    /\ api = NoApi
    /\ api' = api
    /\ ctxs' = [ctxs EXCEPT ![c].path = path]
    /\ result' = [result EXCEPT ![c] = Pending]
    /\ tasks' = Append(tasks, [chain |-> c, ctl |-> CallCtl(fn, c, next),
                               stack |-> <<>>, root |-> TRUE])
    /\ req' = [req EXCEPT ![c] = [fn |-> fn, next |-> next, path |-> path]]
    /\ UNCHANGED <<call, called, comps, gens>>

-----------------------------------------------------------------------------
(* Calling a middleware as fn(ctx, next) *)

\* a function written by the user starts to run its body
CallUser(t) ==
    LET ctl == tasks[t].ctl IN
    /\ ctl.op = "call"
    /\ ctl.fn.kind = "user"
    /\ ctl.fn.ctor = "Function"
    /\ SetTask(t, BodyCtl(ctl.fn, ctl.ctx, ctl.next, 1, FALSE), tasks[t].stack)
    /\ UNCHANGED <<api, ctxs, call, called, comps, gens, result, req>>

\* a generator function called as a plain function only returns a generator
\* object: none of its body runs
CallGeneratorFunction(t) ==
    LET ctl == tasks[t].ctl IN
    /\ ctl.op = "call"
    /\ CtorName(ctl.fn) = "GeneratorFunction"
    /\ SetTask(t, RetCtl(Resolved), tasks[t].stack)
    /\ UNCHANGED <<api, ctxs, call, called, comps, gens, result, req>>

\* a generator object that has already returned: it never calls next
CreateGeneratorDone(next) == [state |-> "done", next |-> next]

\* a generator that yields a promise already resolved, not that of next()
CreateGeneratorResolved(next) ==
    [state |-> "fresh", next |-> CallerNext("resolve")]

\* the generator object createGenerator(next), not yet started
CreateGenerator(next) == [state |-> "fresh", next |-> next]

\* a generator that catches what next() rejects with
GenReturnSwallows(out) == Resolved

\* `return yield next()`: what the generator makes of the promise of next()
GenReturn(out) == out

\* a generator that hands the modern middleware another object than `this`
BackBodyOtherContext(fn, ctx, next, flag) ==
    CallCtl(fn.mw, CHOOSE other \in Chains : other # ctx,
            GuardNext(flag, ctx, next))

\* the generator of convert.back(mw), started with this = ctx and next, its
\* `called` flag being the fresh heap cell `flag`: it calls mw(ctx, guard)
BackBody(fn, ctx, next, flag) ==
    CallCtl(fn.mw, ctx, GuardNext(flag, ctx, next))

\* the wrapper made by convert: co.call(ctx, mw.call(ctx, createGenerator(next)))
CallConverted(t) ==
    LET ctl == tasks[t].ctl
        g == Len(gens) + 1
        flag == Len(called) + 1
    IN
    /\ ctl.op = "call"
    /\ ctl.fn.kind = "converted"
    /\ gens' = Append(gens, CreateGenerator(ctl.next))
    /\ IF ctl.fn.mw.kind = "back"
       THEN /\ called' = Append(called, FALSE)
            /\ SetTask(t, BackBody(ctl.fn.mw, ctl.ctx, GenNext(g), flag),
                       Append(tasks[t].stack, PromiseFrame))
       ELSE /\ called' = called
            /\ SetTask(t, BodyCtl(ctl.fn.mw, ctl.ctx, GenNext(g), 1, FALSE),
                       Append(tasks[t].stack, PromiseFrame))
    /\ UNCHANGED <<api, ctxs, call, comps, result, req>>

\* the function made by koa-compose: index = -1, dispatch(0)
CallComposed(t) ==
    LET ctl == tasks[t].ctl IN
    /\ ctl.op = "call"
    /\ ctl.fn.kind = "composed"
    /\ comps' = Append(comps, [middleware |-> ctl.fn.middleware, index |-> -1,
                               ctx |-> ctl.ctx, next |-> ctl.next])
    /\ SetTask(t, InvokeCtl(DispatchNext(Len(comps) + 1, 0)), tasks[t].stack)
    /\ UNCHANGED <<api, ctxs, call, called, gens, result, req>>

\* the function made by mount(prefix, app)
CallMounted(t) ==
    LET ctl == tasks[t].ctl
        fn == ctl.fn
        prev == ctxs[ctl.ctx].path
        m == Match(fn.prefix, fn.trailingSlash, prev)
    IN
    /\ ctl.op = "call"
    /\ fn.kind = "mounted"
    /\ IF ~m.matched
       THEN /\ SetTask(t, InvokeCtl(ctl.next), tasks[t].stack)
            /\ ctxs' = ctxs
       ELSE /\ ctxs' = [ctxs EXCEPT ![ctl.ctx].mountPath = fn.prefix,
                                    ![ctl.ctx].path = m.newPath]
            /\ SetTask(t,
                 CallCtl(fn.downstream, ctl.ctx,
                         MountNext(ctl.ctx, prev, m.newPath, ctl.next)),
                 Append(tasks[t].stack, MountThenFrame(ctl.ctx, prev)))
    /\ UNCHANGED <<api, call, called, comps, gens, result, req>>

-----------------------------------------------------------------------------
(* Calling a continuation as next() *)

\* dispatch(i) of koa-compose
InvokeDispatch(t) ==
    LET ctl == tasks[t].ctl
        k == ctl.next
        comp == comps[k.comp]
        n == Len(comp.middleware)
    IN
    /\ ctl.op = "invoke"
    /\ k.k = "dispatch"
    /\ IF k.i <= comp.index
       THEN /\ SetTask(t, RetCtl(Rejected(MultipleCalls)), tasks[t].stack)
            /\ comps' = comps
       ELSE /\ comps' = [comps EXCEPT ![k.comp].index = k.i]
            /\ IF k.i < n
               THEN SetTask(t, CallCtl(comp.middleware[k.i + 1], comp.ctx,
                                       DispatchNext(k.comp, k.i + 1)),
                            Append(tasks[t].stack, PromiseFrame))
               ELSE IF k.i = n /\ comp.next.k # "none"
               THEN SetTask(t, InvokeCtl(comp.next),
                            Append(tasks[t].stack, PromiseFrame))
               ELSE SetTask(t, RetCtl(Resolved), tasks[t].stack)
    /\ UNCHANGED <<api, ctxs, call, called, gens, result, req>>

\* a guard that does not look at the flag
GuardNeverRejects(flag) == FALSE

\* a guard whose flag is one variable shared by every invocation
GuardRejectsShared(flag) == \E f \in DOMAIN called : called[f]

\* if (called): the guarded continuation of convert.back rejects
GuardRejects(flag) == called[flag]

InvokeGuard(t) ==
    LET ctl == tasks[t].ctl
        k == ctl.next
    IN
    /\ ctl.op = "invoke"
    /\ k.k = "guard"
    /\ IF GuardRejects(k.flag)
       THEN /\ SetTask(t, RetCtl(Rejected(MultipleCalls)), tasks[t].stack)
            /\ called' = called
       ELSE /\ called' = [called EXCEPT ![k.flag] = TRUE]
            /\ SetTask(t, CoCtl(k.next), Append(tasks[t].stack, PromiseFrame))
    /\ UNCHANGED <<api, ctxs, call, comps, gens, result, req>>

\* the continuation mount gives to downstream
InvokeMountNext(t) ==
    LET ctl == tasks[t].ctl
        k == ctl.next
    IN
    /\ ctl.op = "invoke"
    /\ k.k = "mountnext"
    /\ ctxs' = [ctxs EXCEPT ![k.ctx].path = k.prev]
    /\ SetTask(t, InvokeCtl(k.upstream),
               Append(tasks[t].stack, UpstreamThenFrame(k.ctx, k.newPath)))
    /\ UNCHANGED <<api, call, called, comps, gens, result, req>>

\* the next of the caller of the whole chain
InvokeCaller(t) ==
    LET ctl == tasks[t].ctl
        c == tasks[t].chain
    IN
    /\ ctl.op = "invoke"
    /\ ctl.next.k = "caller"
    /\ Log(c, Entry("next", 0, c, NoErr))
    /\ SetTask(t, RetCtl(IF ctl.next.settle = "reject"
                         THEN Rejected(Err("upstream", 0))
                         ELSE Resolved),
               tasks[t].stack)
    /\ UNCHANGED <<api, ctxs, called, comps, gens, result, req>>

\* next is undefined: calling it throws
InvokeNone(t) ==
    LET ctl == tasks[t].ctl IN
    /\ ctl.op = "invoke"
    /\ ctl.next.k = "none"
    /\ SetTask(t, RetCtl(Thrown(NotAFunction)), tasks[t].stack)
    /\ UNCHANGED <<api, ctxs, call, called, comps, gens, result, req>>

\* a token that calls next() again every time it is yielded
DriveGeneratorAgain(t) ==
    LET ctl == tasks[t].ctl
        g == ctl.next.g
    IN
    /\ ctl.op = "co"
    /\ ctl.next.k = "gen"
    /\ gens' = [gens EXCEPT ![g].state = "suspended"]
    /\ SetTask(t, InvokeCtl(gens[g].next), Append(tasks[t].stack, GenFrame(g)))
    /\ UNCHANGED <<api, ctxs, call, called, comps, result, req>>

\* co drives (or yield* delegates to) the generator object
\* createGenerator(next), whose body is `return yield next()`
DriveGenerator(t) ==
    LET ctl == tasks[t].ctl
        g == ctl.next.g
    IN
    /\ ctl.op = "co"
    /\ ctl.next.k = "gen"
    /\ IF gens[g].state = "fresh"
       THEN /\ gens' = [gens EXCEPT ![g].state = "suspended"]
            /\ SetTask(t, InvokeCtl(gens[g].next),
                       Append(tasks[t].stack, GenFrame(g)))
       ELSE /\ gens' = [gens EXCEPT ![g].state = "done"]
            /\ SetTask(t, RetCtl(Resolved), tasks[t].stack)
    /\ UNCHANGED <<api, ctxs, call, called, comps, result, req>>

-----------------------------------------------------------------------------
(* The body of a middleware written by the user *)

Stmt(ctl) == IF ctl.pc <= Len(ctl.fn.body) THEN ctl.fn.body[ctl.pc] ELSE "end"

IsLegacy(fn) == CtorName(fn) = "GeneratorFunction"

\* call.push(marker)
BodyMark(t) ==
    LET ctl == tasks[t].ctl IN
    /\ ctl.op = "body"
    /\ Stmt(ctl) \in {"enter", "exit"}
    /\ Log(tasks[t].chain, Entry(Stmt(ctl), ctl.fn.id, ctl.ctx, NoErr))
    /\ SetTask(t, [ctl EXCEPT !.pc = @ + 1], tasks[t].stack)
    /\ UNCHANGED <<api, ctxs, called, comps, gens, result, req>>

\* `yield next` or `yield* next` in a generator function; `return
\* next().then(...)` or `yield next()` under co.wrap in a modern one
BodyNext(t) ==
    LET ctl == tasks[t].ctl
        frame == BodyFrame(ctl.fn, ctl.ctx, ctl.next, ctl.pc + 1, ctl.async)
    IN
    /\ ctl.op = "body"
    /\ Stmt(ctl) \in {"next", "nextstar"}
    /\ SetTask(t, IF IsLegacy(ctl.fn) THEN CoCtl(ctl.next)
                  ELSE InvokeCtl(ctl.next),
               Append(tasks[t].stack, frame))
    /\ UNCHANGED <<api, ctxs, call, called, comps, gens, result, req>>

\* `next()` in a modern middleware that does not wait for the promise
BodyFork(t) ==
    LET ctl == tasks[t].ctl
        frame == ForkFrame(ctl.fn, ctl.ctx, ctl.next, ctl.pc + 1, ctl.async)
    IN
    /\ ctl.op = "body"
    /\ Stmt(ctl) = "fork"
    /\ SetTask(t, InvokeCtl(ctl.next), Append(tasks[t].stack, frame))
    /\ UNCHANGED <<api, ctxs, call, called, comps, gens, result, req>>

\* `throw new Error()` or `return Promise.reject(new Error())`
BodyThrow(t) ==
    LET ctl == tasks[t].ctl
        e == Err("error", ctl.fn.id)
    IN
    /\ ctl.op = "body"
    /\ Stmt(ctl) \in {"throw", "reject"}
    /\ SetTask(t, RetCtl(IF Stmt(ctl) = "reject" \/ ctl.async
                         THEN Rejected(e) ELSE Thrown(e)),
               tasks[t].stack)
    /\ UNCHANGED <<api, ctxs, call, called, comps, gens, result, req>>

\* the end of the body
BodyEnd(t) ==
    LET ctl == tasks[t].ctl IN
    /\ ctl.op = "body"
    /\ Stmt(ctl) = "end"
    /\ SetTask(t, RetCtl(Resolved), tasks[t].stack)
    /\ UNCHANGED <<api, ctxs, call, called, comps, gens, result, req>>

\* the event a middleware waits for (a timer, I/O) happens
Settle(t) ==
    LET ctl == tasks[t].ctl IN
    /\ AtWait(ctl)
    /\ Stmt(ctl) = "wait"
    /\ ~HasFork(tasks[t].stack)
    /\ SetTask(t, [ctl EXCEPT !.pc = @ + 1, !.async = TRUE], tasks[t].stack)
    /\ UNCHANGED <<api, ctxs, call, called, comps, gens, result, req>>

-----------------------------------------------------------------------------
(* Promises settle *)

\* a call that was not awaited has returned its promise: the caller goes on
\* and what is left of the call runs on its own
Detach(t) ==
    LET ctl == tasks[t].ctl
        stack == tasks[t].stack
        i == LastFork(stack)
        fr == stack[i]
    IN
    /\ HasFork(stack)
    /\ AtWait(ctl) \/ (ctl.op = "ret" /\ Top(stack).f # "fork")
    /\ tasks' = Append(
           [tasks EXCEPT ![t].ctl = BodyCtl(fr.fn, fr.ctx, fr.next, fr.pc, fr.async),
                         ![t].stack = SubSeq(stack, 1, i - 1)],
           [chain |-> tasks[t].chain, ctl |-> ctl,
            stack |-> SubSeq(stack, i + 1, Len(stack)), root |-> FALSE])
    /\ UNCHANGED <<api, ctxs, call, called, comps, gens, result, req>>

\* a call that was not awaited has ended at once: an exception it threw is
\* thrown in the caller, a promise it returned is dropped
ReturnFork(t) ==
    LET ctl == tasks[t].ctl
        stack == tasks[t].stack
        fr == Top(stack)
    IN
    /\ ctl.op = "ret"
    /\ stack # <<>>
    /\ fr.f = "fork"
    /\ IF ctl.out.st = "thrown"
       THEN SetTask(t, RetCtl(IF fr.async THEN AsPromise(ctl.out) ELSE ctl.out),
                    Pop(stack))
       ELSE SetTask(t, BodyCtl(fr.fn, fr.ctx, fr.next, fr.pc, fr.async),
                    Pop(stack))
    /\ UNCHANGED <<api, ctxs, call, called, comps, gens, result, req>>

\* the promise a user's middleware waits for has settled: the body goes on,
\* catches the error or ends with it
ResumeBody(fr, out) ==
    IF out.st = "resolved"
    THEN BodyCtl(fr.fn, fr.ctx, fr.next, fr.pc, TRUE)
    ELSE IF IsLegacy(fr.fn)
    THEN (IF fr.fn.catches THEN RetCtl(Resolved) ELSE RetCtl(out))
    ELSE IF out.st = "thrown"
    THEN RetCtl(IF fr.async THEN AsPromise(out) ELSE out)
    ELSE (IF fr.fn.catches THEN RetCtl(Resolved) ELSE RetCtl(out))

Caught(fr, out) ==
    /\ out.st # "resolved"
    /\ fr.fn.catches
    /\ IsLegacy(fr.fn) \/ out.st = "rejected"

\* a mounted callable that leaves the path as downstream left it
RestoreNever(fr, out) == ctxs

\* a mounted callable that restores mountPath together with path
MountThenRestoresMountPath(fr, out) ==
    IF out.st = "resolved"
    THEN [ctxs EXCEPT ![fr.ctx] = [path |-> fr.prev, mountPath |-> <<>>]]
    ELSE ctxs

\* .then(() => { ctx.path = prev }) of the mounted callable
MountThen(fr, out) ==
    IF out.st = "resolved"
    THEN [ctxs EXCEPT ![fr.ctx].path = fr.prev]
    ELSE ctxs

\* a continuation that does not set the mounted path again
UpstreamThenKeeps(fr, out) == ctxs

\* .then(() => { ctx.path = newPath }) after upstream()
UpstreamThen(fr, out) ==
    IF out.st = "resolved"
    THEN [ctxs EXCEPT ![fr.ctx].path = fr.newPath]
    ELSE ctxs

\* the promise on top of the stack has settled
Return(t) ==
    LET ctl == tasks[t].ctl
        stack == tasks[t].stack
        fr == Top(stack)
        out == ctl.out
    IN
    /\ ctl.op = "ret"
    /\ stack # <<>>
    /\ ~HasFork(stack)
    /\ SetTask(t,
               CASE fr.f = "body" -> ResumeBody(fr, out)
                 [] fr.f = "promise" -> RetCtl(AsPromise(out))
                 [] fr.f = "gen" -> RetCtl(GenReturn(out))
                 [] OTHER -> RetCtl(out),
               Pop(stack))
    /\ ctxs' = CASE fr.f = "mountthen" -> MountThen(fr, out)
                 [] fr.f = "upthen" -> UpstreamThen(fr, out)
                 [] OTHER -> ctxs
    /\ gens' = IF fr.f = "gen" THEN [gens EXCEPT ![fr.g].state = "done"]
               ELSE gens
    /\ call' = IF fr.f = "body" /\ Caught(fr, out)
               THEN [call EXCEPT ![tasks[t].chain] =
                        Append(@, Entry("catch", fr.fn.id, fr.ctx, out.err))]
               ELSE call
    /\ UNCHANGED <<api, called, comps, result, req>>

\* the last promise of a flow of control has settled; that of the request
\* itself is the result of the request
Finish(t) ==
    LET ctl == tasks[t].ctl IN
    /\ ctl.op = "ret"
    /\ tasks[t].stack = <<>>
    /\ SetTask(t, DoneCtl, <<>>)
    /\ result' = IF tasks[t].root
                 THEN [result EXCEPT ![tasks[t].chain] = ctl.out]
                 ELSE result
    /\ UNCHANGED <<api, ctxs, call, called, comps, gens, req>>

-----------------------------------------------------------------------------
(* The middlewares and requests the model is run on *)

RECURSIVE SeqsOfLen(_, _)
SeqsOfLen(S, n) ==
    IF n = 0 THEN {<<>>}
    ELSE {Append(s, x) : s \in SeqsOfLen(S, n - 1), x \in S}

SeqsUpTo(S, n) == UNION {SeqsOfLen(S, k) : k \in 0..n}

Onion == <<"enter", "next", "exit">>

\* a middleware of the given style that records a marker, continues and
\* records a second marker (src/test.js, convert.compose() should work)
Mw(id, style) ==
    CASE style = "yield" -> User(id, "GeneratorFunction", Onion, FALSE)
      [] style = "yieldstar" ->
            User(id, "GeneratorFunction", <<"enter", "nextstar", "exit">>, FALSE)
      [] style = "modern" -> User(id, "Function", Onion, FALSE)
      [] style = "back" -> Back(User(id, "Function", Onion, FALSE))
      [] style = "yieldcatch" -> User(id, "GeneratorFunction", Onion, TRUE)
      [] style = "moderncatch" -> User(id, "Function", Onion, TRUE)
      [] style = "throw" -> User(id, "Function", <<"enter", "throw">>, FALSE)
      [] style = "reject" -> User(id, "Function", <<"enter", "reject">>, FALSE)
      [] style = "yieldthrow" ->
            User(id, "GeneratorFunction", <<"enter", "throw">>, FALSE)
      [] style = "latethrow" ->
            User(id, "Function", <<"enter", "next", "throw">>, FALSE)
      [] style = "end" -> User(id, "Function", <<"enter">>, FALSE)
      [] style = "yieldend" -> User(id, "GeneratorFunction", <<"enter">>, FALSE)
      [] style = "yieldtwice" ->
            User(id, "GeneratorFunction",
                 <<"enter", "next", "next", "exit">>, FALSE)
      [] style = "yieldstartwice" ->
            User(id, "GeneratorFunction",
                 <<"enter", "nextstar", "nextstar", "exit">>, FALSE)
      [] style = "stall" ->
            User(id, "Function", <<"enter", "stall", "exit">>, FALSE)
      [] style = "wait" -> User(id, "Function", <<"enter", "wait", "exit">>, FALSE)
      [] style = "twice" ->
            User(id, "Function", <<"enter", "next", "next", "exit">>, FALSE)
      [] style = "forknext" ->
            User(id, "Function", <<"enter", "fork", "next", "exit">>, FALSE)
      [] style = "nextfork" ->
            User(id, "Function", <<"enter", "next", "fork", "exit">>, FALSE)
      [] style = "backtwice" ->
            Back(User(id, "Function", <<"enter", "next", "next", "exit">>, FALSE))
      [] style = "backforknext" ->
            Back(User(id, "Function", <<"enter", "fork", "next", "exit">>, FALSE))
      [] style = "backnextfork" ->
            Back(User(id, "Function", <<"enter", "next", "fork", "exit">>, FALSE))

Mws(styles) == [i \in DOMAIN styles |-> Mw(i, styles[i])]

OnionStyles == {"yield", "yieldstar", "modern", "back"}

CatchStyles == {"yieldcatch", "moderncatch"}

FailStyles == {"throw", "reject", "yieldthrow", "latethrow"}

GuardStyles == {"twice", "forknext", "nextfork",
                "backtwice", "backforknext", "backnextfork"}

Prog(fn, next, path) == [fn |-> fn, next |-> next, path |-> path]

Root == <<Slash>>

\* chains of onion middlewares of every mix of styles
OnionPrograms ==
    {Prog(Compose(Mws(styles)), next, Root) :
        styles \in SeqsUpTo(OnionStyles, MaxLen),
        next \in {NoNext, CallerNext("resolve")}}

\* chains in which the last middleware fails, or the caller's next does
ErrorPrograms ==
    {Prog(Compose(Mws(styles \o <<fail>>)), NoNext, Root) :
        styles \in SeqsUpTo({"yield", "modern"} \cup CatchStyles, MaxLen),
        fail \in FailStyles}
    \cup
    {Prog(Compose(Mws(styles)), CallerNext("reject"), Root) :
        styles \in SeqsUpTo({"yield", "back"} \cup CatchStyles, MaxLen)}

\* one converted middleware called with the caller's next
ConvertPrograms ==
    {Prog(Convert(Mw(1, style)), next, Root) :
        style \in {"yield", "yieldstar", "yieldcatch", "yieldend", "yieldthrow",
                   "yieldtwice", "yieldstartwice"},
        next \in {CallerNext("resolve"), CallerNext("reject")}}

\* a middleware that calls its continuation twice, between a middleware
\* that catches and one that ends the chain
GuardPrograms ==
    {Prog(Compose(<<Mw(1, outer), Mw(2, guard), Mw(3, inner)>>), NoNext, Root) :
        outer \in {"yieldcatch", "modern"},
        guard \in GuardStyles,
        inner \in {"end", "wait", "modern", "yield"}}

\* request paths: the strings of at most MaxPathLen characters that begin
\* with "/"
Paths == {p \in StrsUpTo(MaxPathLen) : p # <<>> /\ p[1] = Slash}

MountPrefixes == {<<Slash, "a">>, <<Slash, "a", Slash>>}

\* what is mounted: a middleware function, or an application with a
\* middleware list
MountTargets ==
    {Mw(2, style) : style \in {"modern", "end", "throw", "reject",
                                "moderncatch", "latethrow"}}
    \cup {App(<<Mw(2, "modern")>>), App(<<Mw(2, "yield")>>)}

\* a mounted callable called by itself
MountPrograms ==
    {Prog(Mount(prefix, target), next, path) :
        prefix \in MountPrefixes, target \in MountTargets,
        next \in {CallerNext("resolve"), CallerNext("reject"), NoNext},
        path \in Paths}

\* a mounted callable in a chain, after a middleware that observes the path
\* and before one that ends the chain
MountedPrograms ==
    {Prog(Compose(<<Mw(1, "modern"), Mount(prefix, target), Mw(3, tail)>>),
          NoNext, path) :
        prefix \in MountPrefixes, target \in MountTargets,
        tail \in {"end", "throw"}, path \in Paths}

\* src/test.js, should cascade properly: C at /c inside B at /b inside A at /a,
\* requested with every leading part of /a/b/c
AppC == App(<<Mw(3, "modern")>>)

AppB == App(<<Mw(2, "modern"), Mount(<<Slash, "c">>, AppC)>>)

AppA == App(<<Mw(1, "modern"), Mount(<<Slash, "b">>, AppB)>>)

NestedPath == <<Slash, "a", Slash, "b", Slash, "c">>

CascadePrograms ==
    {Prog(KoaCompose(<<Mount(<<Slash, "a">>, AppA)>>), next,
          SubSeq(NestedPath, 1, n)) :
        n \in 1..Len(NestedPath), next \in {NoNext, CallerNext("resolve")}}

\* src/test.js, should mount at /: what mount(app) returns, called by itself
DefaultMountPrograms ==
    {Prog(MountDefault(target), next, path) :
        target \in MountTargets, next \in {CallerNext("resolve"), NoNext},
        path \in Paths}

\* src/test.js, should restore prefix for mounted middleware: mounts one
\* after the other in a chain, each target calling next
SequentialPrograms ==
    {Prog(Compose(<<Mount(<<Slash, "a">>, Mw(1, "modern")),
                    Mount(<<Slash, "a", Slash, "b">>, Mw(2, "modern"))>>),
          NoNext, path) : path \in Paths}

\* chains whose last middleware waits for a promise that never settles
StallPrograms ==
    {Prog(Compose(Mws(styles \o <<"stall">>)), NoNext, Root) :
        styles \in SeqsUpTo(OnionStyles, 2)}

\* chains whose last middleware waits for a promise that settles later
WaitPrograms ==
    {Prog(Compose(Mws(styles \o <<"wait">>)), NoNext, Root) :
        styles \in SeqsUpTo(OnionStyles, 2)}

Programs == OnionPrograms \cup ErrorPrograms \cup ConvertPrograms
            \cup GuardPrograms \cup MountPrograms \cup MountedPrograms
            \cup CascadePrograms \cup DefaultMountPrograms
            \cup SequentialPrograms \cup StallPrograms \cup WaitPrograms

BaseInputs ==
    {Mw(1, style) : style \in OnionStyles \cup {"end", "yieldend"}}
    \cup {Compose(<<Mw(1, "yield")>>), Mount(<<Slash, "a">>, Mw(1, "end")),
          Named(Mw(1, "yield"), "testing", ""), Named(Mw(1, "end"), "testing", ""),
          Named(Mw(1, "yield"), "testing", "shown"),
          Named(Mw(1, "end"), "testing", "shown"), NonFunction}

\* what convert and convert.back are applied to: functions of both kinds,
\* the wrappers made of them, and a value that is not a function
ApiInputs ==
    BaseInputs
    \cup {Convert(mw) : mw \in BaseInputs \ {NonFunction}}
    \cup {Back(mw) : mw \in BaseInputs \ {NonFunction}}

\* the lists convert.compose is applied to
ComposeInputs ==
    SeqsUpTo({Mw(1, "yield"), Mw(1, "modern"), NonFunction, App(<<>>)}, 2)

\* the prefixes mount is applied to: with and without a leading "/", and
\* the empty string
MountInputPrefixes == StrsUpTo(2)

\* the prefixes match is tried on: every string of at most MaxPrefixLen
\* characters that begins with "/", but "/" itself (mount returns early)
MatchPrefixes ==
    {p \in StrsUpTo(MaxPrefixLen) : p # <<>> /\ p[1] = Slash /\ p # <<Slash>>}

-----------------------------------------------------------------------------
(* The specification *)

TaskIds == 1..MaxTasks

Started(t) == t \in DOMAIN tasks

Next ==
    \/ NothingStarted /\ \E mw \in ApiInputs : ApiConvert(mw)
    \/ NothingStarted /\ \E mw \in ApiInputs : ApiBack(mw)
    \/ /\ NothingStarted
       /\ \E prefix \in MatchPrefixes, path \in Paths : ApiMatch(prefix, path)
    \/ NothingStarted /\ \E arr \in ComposeInputs : ApiCompose(arr)
    \/ /\ NothingStarted
       /\ \E prefix \in MountInputPrefixes, app \in MountTargets :
             ApiMount(prefix, app)
    \/ NothingStarted /\ \E app \in MountTargets : ApiMountDefault(app)
    \/ /\ result[1] = Idle /\ api = NoApi
       /\ \E p \in Programs : Request(1, p.fn, p.next, p.path)
    \/ \E t \in TaskIds : Started(t) /\ CallUser(t)
    \/ \E t \in TaskIds : Started(t) /\ CallGeneratorFunction(t)
    \/ \E t \in TaskIds : Started(t) /\ CallConverted(t)
    \/ \E t \in TaskIds : Started(t) /\ CallComposed(t)
    \/ \E t \in TaskIds : Started(t) /\ CallMounted(t)
    \/ \E t \in TaskIds : Started(t) /\ InvokeDispatch(t)
    \/ \E t \in TaskIds : Started(t) /\ InvokeGuard(t)
    \/ \E t \in TaskIds : Started(t) /\ InvokeMountNext(t)
    \/ \E t \in TaskIds : Started(t) /\ InvokeCaller(t)
    \/ \E t \in TaskIds : Started(t) /\ InvokeNone(t)
    \/ \E t \in TaskIds : Started(t) /\ DriveGenerator(t)
    \/ \E t \in TaskIds : Started(t) /\ BodyMark(t)
    \/ \E t \in TaskIds : Started(t) /\ BodyNext(t)
    \/ \E t \in TaskIds : Started(t) /\ BodyFork(t)
    \/ \E t \in TaskIds : Started(t) /\ BodyThrow(t)
    \/ \E t \in TaskIds : Started(t) /\ BodyEnd(t)
    \/ \E t \in TaskIds : Started(t) /\ Settle(t)
    \/ \E t \in TaskIds : Started(t) /\ Detach(t)
    \/ \E t \in TaskIds : Started(t) /\ ReturnFork(t)
    \/ \E t \in TaskIds : Started(t) /\ Return(t)
    \/ \E t \in TaskIds : Started(t) /\ Finish(t)

Spec == Init /\ [][Next]_vars

\* a step of the flow of control t
Step(t) ==
    \/ CallUser(t) \/ CallGeneratorFunction(t) \/ CallConverted(t)
    \/ CallComposed(t) \/ CallMounted(t)
    \/ InvokeDispatch(t) \/ InvokeGuard(t) \/ InvokeMountNext(t)
    \/ InvokeCaller(t) \/ InvokeNone(t) \/ DriveGenerator(t)
    \/ BodyMark(t) \/ BodyNext(t) \/ BodyFork(t) \/ BodyThrow(t) \/ BodyEnd(t)
    \/ Settle(t) \/ Detach(t) \/ ReturnFork(t) \/ Return(t) \/ Finish(t)

\* the host runs every callback that is ready, and the events the
\* middlewares wait for happen, but for those that never do
LiveSpec == Spec /\ \A t \in TaskIds : WF_vars(Started(t) /\ Step(t))

-----------------------------------------------------------------------------
(* Two requests at a time *)

PathA == <<Slash, "a">>

PathAB == <<Slash, "a", Slash, "b">>

\* the requests that run two at a time, each with a context of its own
PairList ==
    <<Prog(Compose(<<Mw(1, "yieldcatch"), Mw(2, "backtwice"), Mw(3, "wait")>>),
           NoNext, Root),
      Prog(Compose(<<Mw(1, "modern"), Mw(2, "backforknext"), Mw(3, "wait")>>),
           NoNext, Root),
      Prog(Compose(<<Mw(1, "yieldcatch"), Mw(2, "backnextfork"), Mw(3, "end")>>),
           NoNext, Root),
      Prog(Compose(<<Mw(1, "modern"), Mount(PathA, Mw(2, "modern")),
                     Mw(3, "wait")>>), NoNext, PathAB),
      Prog(Compose(<<Mw(1, "modern"), Mount(PathA, Mw(2, "modern")),
                     Mw(3, "wait")>>), NoNext, PathA),
      Prog(Mount(PathA, Mw(2, "throw")), CallerNext("resolve"), PathA),
      Prog(Mount(PathA, App(<<Mw(2, "yield")>>)), NoNext, <<Slash, "b">>),
      Prog(Mount(PathA, App(<<Mw(2, "yield")>>)), CallerNext("resolve"), PathA),
      Prog(Mount(<<Slash, "a", Slash>>, Mw(2, "modern")), CallerNext("reject"),
           PathAB)>>

PairPrograms == {PairList[i] : i \in DOMAIN PairList}

\* the host runs the steps of the two requests in any order
NextTwo ==
    \/ \E c \in Chains :
          /\ result[c] = Idle /\ api = NoApi
          /\ \E p \in PairPrograms : Request(c, p.fn, p.next, p.path)
    \/ \E t \in TaskIds : Started(t) /\ CallUser(t)
    \/ \E t \in TaskIds : Started(t) /\ CallGeneratorFunction(t)
    \/ \E t \in TaskIds : Started(t) /\ CallConverted(t)
    \/ \E t \in TaskIds : Started(t) /\ CallComposed(t)
    \/ \E t \in TaskIds : Started(t) /\ CallMounted(t)
    \/ \E t \in TaskIds : Started(t) /\ InvokeDispatch(t)
    \/ \E t \in TaskIds : Started(t) /\ InvokeGuard(t)
    \/ \E t \in TaskIds : Started(t) /\ InvokeMountNext(t)
    \/ \E t \in TaskIds : Started(t) /\ InvokeCaller(t)
    \/ \E t \in TaskIds : Started(t) /\ InvokeNone(t)
    \/ \E t \in TaskIds : Started(t) /\ DriveGenerator(t)
    \/ \E t \in TaskIds : Started(t) /\ BodyMark(t)
    \/ \E t \in TaskIds : Started(t) /\ BodyNext(t)
    \/ \E t \in TaskIds : Started(t) /\ BodyFork(t)
    \/ \E t \in TaskIds : Started(t) /\ BodyThrow(t)
    \/ \E t \in TaskIds : Started(t) /\ BodyEnd(t)
    \/ \E t \in TaskIds : Started(t) /\ Settle(t)
    \/ \E t \in TaskIds : Started(t) /\ Detach(t)
    \/ \E t \in TaskIds : Started(t) /\ ReturnFork(t)
    \/ \E t \in TaskIds : Started(t) /\ Return(t)
    \/ \E t \in TaskIds : Started(t) /\ Finish(t)

SpecTwo == Init /\ [][NextTwo]_vars

-----------------------------------------------------------------------------
(* Properties *)

Settled(c) == result[c].st \in {"resolved", "rejected", "thrown"}

\* the markers a chain has recorded, as <<event, middleware>> pairs
Markers(c) == [i \in DOMAIN call[c] |-> <<call[c][i].ev, call[c][i].id>>]

IsPrefix(s, t) ==
    /\ Len(s) <= Len(t)
    /\ \A i \in DOMAIN s : s[i] = t[i]

NextMarker(next) == IF next.k = "caller" THEN <<<<"next", 0>>>> ELSE <<>>

\* enter(1) .. enter(n), the caller's next, exit(n) .. exit(1)
OnionOrder(n, next) ==
    [i \in 1..n |-> <<"enter", i>>] \o NextMarker(next)
        \o [i \in 1..n |-> <<"exit", n + 1 - i>>]

\* C4: in a chain made by convert.compose from N onion middlewares of any
\* mix of styles, the markers are recorded in the order enter(1) .. enter(N),
\* exit(N) .. exit(1) (what is recorded at any moment is a leading part of
\* that sequence), and when the composed promise settles it resolves with
\* every marker, exit(1) included, recorded.
C4_OnionOrder ==
    \A c \in Chains :
        req[c] \in OnionPrograms =>
            LET expected == OnionOrder(Len(req[c].fn.middleware), req[c].next)
            IN  /\ IsPrefix(Markers(c), expected)
                /\ Settled(c) => Markers(c) = expected /\ result[c] = Resolved

\* a chain of MaxLen middlewares, legacy and modern, has settled
C4_Witness ==
    \E c \in Chains :
        /\ req[c] \in OnionPrograms
        /\ Len(req[c].fn.middleware) = MaxLen
        /\ \E i, j \in DOMAIN req[c].fn.middleware :
              /\ req[c].fn.middleware[i].kind = "converted"
              /\ req[c].fn.middleware[j].kind = "user"
        /\ Settled(c)
        /\ Len(call[c]) >= 2 * MaxLen

\* C5: a legacy middleware converted by convert that records A, yields the
\* continuation (by `yield next` or `yield* next`) and records B, called
\* with the caller's next, records A, then the caller's marker, then B: B is
\* recorded only after the promise of next has resolved (never when it
\* rejects), and the wrapper's promise resolves only after B.
C5_YieldOrder ==
    \A c \in Chains :
        \A style \in {"yield", "yieldstar"} :
            /\ req[c] = Prog(Convert(Mw(1, style)), CallerNext("resolve"), Root) =>
                  /\ IsPrefix(Markers(c), <<<<"enter", 1>>, <<"next", 0>>, <<"exit", 1>>>>)
                  /\ Settled(c) => Len(call[c]) = 3 /\ result[c] = Resolved
            /\ req[c] = Prog(Convert(Mw(1, style)), CallerNext("reject"), Root) =>
                  /\ IsPrefix(Markers(c), <<<<"enter", 1>>, <<"next", 0>>>>)
                  /\ Settled(c) => Len(call[c]) = 2 /\ result[c].st = "rejected"

\* a converted `yield* next` middleware has recorded B and resolved
C5_Witness ==
    \E c \in Chains :
        /\ req[c] = Prog(Convert(Mw(1, "yieldstar")), CallerNext("resolve"), Root)
        /\ result[c] = Resolved
        /\ Markers(c) = <<<<"enter", 1>>, <<"next", 0>>, <<"exit", 1>>>>

\* the function a user wrote, inside the wrappers made of it
UserOf(mw) ==
    CASE mw.kind = "converted" ->
            (IF mw.mw.kind = "back" THEN mw.mw.mw ELSE mw.mw)
      [] mw.kind = "back" -> mw.mw
      [] OTHER -> mw

Fails(mw) ==
    \E i \in DOMAIN UserOf(mw).body : UserOf(mw).body[i] \in {"throw", "reject"}

\* the step of the chain in which the error arises: the last one when it
\* fails, the caller's next (one past the end) otherwise
ErrorAt(mws) ==
    IF mws # <<>> /\ Fails(mws[Len(mws)]) THEN Len(mws) ELSE Len(mws) + 1

Catchers(mws) == {i \in 1..(ErrorAt(mws) - 1) : UserOf(mws[i]).catches}

\* the nearest enclosing step that catches, 0 if none does
Catcher(mws) ==
    IF Catchers(mws) = {} THEN 0
    ELSE CHOOSE i \in Catchers(mws) : \A j \in Catchers(mws) : j <= i

ErrorValue(mws) ==
    IF ErrorAt(mws) <= Len(mws) THEN Err("error", Len(mws))
    ELSE Err("upstream", 0)

\* what a chain whose innermost step fails records: every step is entered,
\* the nearest catcher catches, the steps outside it exit
ErrorOrder(mws, next) ==
    LET k == Catcher(mws) IN
    [i \in 1..Len(mws) |-> <<"enter", i>>]
        \o (IF ErrorAt(mws) > Len(mws) THEN NextMarker(next) ELSE <<>>)
        \o (IF k = 0 THEN <<>>
            ELSE <<<<"catch", k>>>> \o [i \in 1..(k - 1) |-> <<"exit", k - i>>])

\* C6: in a composed chain whose innermost step throws, returns a rejected
\* promise or fails after its continuation (or whose final continuation
\* rejects), the error goes outward unchanged through every step that does
\* not catch it, none of which records its exit marker; the nearest
\* enclosing step that catches it receives that same error value, exactly
\* once; the steps outside that one exit normally and the composed promise
\* resolves; when no step catches, the composed promise rejects with that
\* same error value.
C6_ErrorPropagation ==
    \A c \in Chains :
        req[c] \in ErrorPrograms =>
            LET mws == req[c].fn.middleware
                expected == ErrorOrder(mws, req[c].next)
            IN  /\ IsPrefix(Markers(c), expected)
                /\ \A i \in DOMAIN call[c] :
                      call[c][i].ev = "catch" => call[c][i].err = ErrorValue(mws)
                /\ Settled(c) =>
                      /\ Markers(c) = expected
                      /\ result[c] = IF Catcher(mws) = 0
                                     THEN Rejected(ErrorValue(mws))
                                     ELSE Resolved

\* an error has passed a converted step that does not catch, was caught by
\* a step further out, and a step outside the catcher has exited
C6_Witness ==
    \E c \in Chains :
        /\ req[c] \in ErrorPrograms
        /\ Settled(c)
        /\ LET mws == req[c].fn.middleware IN
              /\ Catcher(mws) > 1
              /\ Catcher(mws) + 1 < ErrorAt(mws)
              /\ \E i \in (Catcher(mws) + 1)..(ErrorAt(mws) - 1) :
                    i <= Len(mws) /\ mws[i].kind = "converted"
        /\ \E i \in DOMAIN call[c] : call[c][i].ev = "catch"
        /\ \E i \in DOMAIN call[c] : call[c][i].ev = "exit"

\* no step catches and the composed promise has rejected with the error of
\* the innermost step
C6_WitnessUncaught ==
    \E c \in Chains :
        /\ req[c] \in ErrorPrograms
        /\ Len(req[c].fn.middleware) > 2
        /\ result[c] = Rejected(Err("error", Len(req[c].fn.middleware)))

\* the request path begins with the prefix and, when the prefix has no
\* trailing slash, goes on with "/" or ends there
Matching(prefix, path) ==
    /\ StartsWith(path, prefix)
    /\ \/ prefix[Len(prefix)] = Slash
       \/ Len(path) = Len(prefix)
       \/ path[Len(prefix) + 1] = Slash

\* the request path with the prefix removed from the front, "/" if nothing
\* is left
Remainder(prefix, path) ==
    IF Len(path) = Len(prefix) THEN <<Slash>>
    ELSE [i \in 1..(Len(path) - Len(prefix)) |-> path[Len(prefix) + i]]

MountedRequest(c) == req[c].fn.kind = "mounted"

\* C1: for a request whose path matches the mount prefix, context.path has
\* its pre-call value when the mounted callable has settled, on every exit
\* path: the target resolves, the target's promise rejects, the target
\* throws, the upstream continuation rejects.
C1_PathRestoredOnEveryExit ==
    \A c \in Chains :
        /\ MountedRequest(c)
        /\ Matching(req[c].fn.prefix, req[c].path)
        /\ Settled(c)
        => ctxs[c].path = req[c].path

\* C2: match gives no match when the path does not start with the prefix;
\* otherwise the remainder (or "/"), accepted unconditionally when the
\* prefix has a trailing slash and only if the remainder starts with "/"
\* when it has none. In particular ("/a/", "/b") is no match, ("/a", "/a")
\* gives "/", ("/a/", "/a") is no match, ("/a/", "/a/b") gives "/b" and
\* "/a" does not match "/ab" (the table of the comment above match, with
\* "images" shortened to "a").
C2_MatchTable ==
    api.op = "match" =>
        LET prefix == api.arg.prefix
            path == api.arg.path
            gives(pre, pa, newPath) ==
                prefix = pre /\ path = pa =>
                    api.res = [matched |-> TRUE, newPath |-> newPath]
            noMatch(pre, pa) ==
                prefix = pre /\ path = pa => ~api.res.matched
        IN  /\ ~StartsWith(path, prefix) => ~api.res.matched
            /\ StartsWith(path, prefix) /\ ~Matching(prefix, path) =>
                  ~api.res.matched
            /\ Matching(prefix, path) =>
                  api.res = [matched |-> TRUE,
                             newPath |-> Remainder(prefix, path)]
            /\ noMatch(<<Slash, "a", Slash>>, <<Slash, "b">>)
            /\ gives(<<Slash, "a">>, <<Slash, "a">>, <<Slash>>)
            /\ noMatch(<<Slash, "a", Slash>>, <<Slash, "a">>)
            /\ gives(<<Slash, "a", Slash>>, <<Slash, "a", Slash, "b">>,
                     <<Slash, "b">>)
            /\ noMatch(<<Slash, "a">>, <<Slash, "a", "b">>)

CountOf(c, ev, id) ==
    Cardinality({i \in DOMAIN call[c] : call[c][i].ev = ev /\ call[c][i].id = id})

\* the requests of GuardPrograms whose middle step is made by convert.back
BackGuardRequest(c) ==
    /\ req[c] \in GuardPrograms
    /\ req[c].fn.middleware[2].kind = "converted"
    /\ req[c].fn.middleware[2].mw.kind = "back"

\* the middle step awaits its second call of the continuation
AwaitsSecondCall(c) ==
    UserOf(req[c].fn.middleware[2]).body \in
        {<<"enter", "next", "next", "exit">>, <<"enter", "fork", "next", "exit">>}

\* task t calls the guarded continuation of convert.back in this step
GuardCalled(t) ==
    /\ Started(t)
    /\ tasks[t].ctl.op = "invoke"
    /\ tasks[t].ctl.next.k = "guard"
    /\ tasks'[t] # tasks[t]

\* what a call of the guarded continuation does, by the flag it finds
GuardStep ==
    \A t \in TaskIds :
        GuardCalled(t) =>
            LET flag == tasks[t].ctl.next.flag IN
            IF called[flag]
            THEN /\ tasks'[t].ctl = RetCtl(Rejected(MultipleCalls))
                 /\ tasks'[t].stack = tasks[t].stack
                 /\ gens' = gens /\ call' = call /\ ctxs' = ctxs
            ELSE /\ called'[flag]
                 /\ tasks'[t].ctl = CoCtl(tasks[t].ctl.next.next)

\* what the chain shows of it: the step after the guarded one is entered at
\* most once; a second call that is awaited fails the guarded step with the
\* error, after the first call has entered the downstream
GuardSeen ==
    \A c \in Chains :
        BackGuardRequest(c) =>
            /\ CountOf(c, "enter", 3) <= 1
            /\ \A i \in DOMAIN call[c] :
                  call[c][i].ev = "catch" =>
                      /\ call[c][i].err = MultipleCalls
                      /\ CountOf(c, "enter", 3) = 1
            /\ Settled(c) /\ AwaitsSecondCall(c) =>
                  /\ CountOf(c, "enter", 3) = 1
                  /\ CountOf(c, "exit", 2) = 0
                  /\ UserOf(req[c].fn.middleware[2]).body[2] = "next"
                     /\ UserOf(req[c].fn.middleware[3]).body # <<"enter">>
                     => CountOf(c, "exit", 3) = 1
                  /\ IF UserOf(req[c].fn.middleware[1]).catches
                     THEN CountOf(c, "catch", 1) = 1 /\ result[c] = Resolved
                     ELSE result[c] = Rejected(MultipleCalls)

\* C3: in one invocation of a callable made by convert.back from a modern
\* middleware, the first call of the guarded continuation sets the flag and
\* drives the external continuation; every later call, made after the first
\* has settled or while it is pending, returns a promise rejected with
\* 'next() called multiple times' and runs nothing: the downstream is
\* entered at most once.
C3_GuardedContinuation == [][GuardStep]_vars /\ []GuardSeen

\* the second call was made while the first was still pending, and was
\* rejected: the outer step caught the error while the downstream still
\* waits
C3_Witness ==
    \E c \in Chains :
        /\ BackGuardRequest(c)
        /\ UserOf(req[c].fn.middleware[2]).body = <<"enter", "fork", "next", "exit">>
        /\ CountOf(c, "catch", 1) = 1
        /\ CountOf(c, "enter", 3) = 1
        /\ CountOf(c, "exit", 3) = 0
        /\ \E t \in DOMAIN tasks : AtWait(tasks[t].ctl)

\* the mount of a request made of a mounted callable alone, or of one in a
\* chain between an observing step 1 and a last step 3
MountOf(c) ==
    IF MountedRequest(c) THEN req[c].fn ELSE req[c].fn.middleware[2]

InChain(c) ==
    /\ req[c].fn.kind = "composed"
    /\ Len(req[c].fn.middleware) = 3
    /\ req[c].fn.middleware[2].kind = "mounted"

MountRequest(c) == MountedRequest(c) \/ InChain(c)

\* C7: for a request that matches the mount prefix, the target (step 2)
\* sees the rewritten path when it is entered and again after the upstream
\* continuation has resolved; the upstream continuation (step 3, or the
\* caller's next) sees the pre-mount path; the middleware upstream of the
\* mount (step 1) sees the pre-mount path before and after the mount runs.
C7_PathSeen ==
    \A c \in Chains :
        MountRequest(c) =>
            \A i \in DOMAIN call[c] :
                LET e == call[c][i] IN
                /\ e.id = 2 /\ e.ev \in {"enter", "exit"} =>
                      /\ Matching(MountOf(c).prefix, req[c].path)
                      /\ e.path = Remainder(MountOf(c).prefix, req[c].path)
                /\ e.id \in {0, 1, 3} /\ e.ev \in {"enter", "exit", "next"} =>
                      e.path = req[c].path

\* a target mounted at a prefix has run, called the upstream continuation,
\* and recorded its exit marker under a rewritten path other than "/";
\* the step before the mount has recorded its exit marker too
C7_Witness ==
    \E c \in Chains :
        /\ InChain(c)
        /\ Settled(c)
        /\ CountOf(c, "exit", 1) = 1
        /\ CountOf(c, "enter", 3) = 1
        /\ \E i \in DOMAIN call[c] :
              /\ call[c][i].id = 2 /\ call[c][i].ev = "exit"
              /\ call[c][i].path # <<Slash>>
              /\ call[c][i].path # req[c].path

\* the upstream continuation of the request's mount has run
UpstreamRuns(c) ==
    IF MountedRequest(c) THEN CountOf(c, "next", 0)
    ELSE CountOf(c, "enter", 3)

\* C8: for a request whose path does not match the mount prefix, the target
\* is never invoked, the upstream continuation is called exactly once and
\* its result is the result of the mounted callable, and context.path and
\* context.mountPath stay as they were at the call.
C8_NoMatchTransparent ==
    \A c \in Chains :
        /\ MountRequest(c)
        /\ req[c].next.k # "none" \/ InChain(c)
        /\ ~Matching(MountOf(c).prefix, req[c].path)
        => /\ ctxs[c] = [path |-> req[c].path, mountPath |-> <<>>]
           /\ \A i \in DOMAIN call[c] : call[c][i].id # 2
           /\ UpstreamRuns(c) <= 1
           /\ Settled(c) =>
                 /\ UpstreamRuns(c) = 1
                 /\ MountedRequest(c) =>
                       result[c] = IF req[c].next.settle = "reject"
                                   THEN Rejected(Err("upstream", 0))
                                   ELSE Resolved

\* a path that begins with the prefix, but goes on with another character
\* than "/", went to the caller's next, which rejected
C8_Witness ==
    \E c \in Chains :
        /\ MountedRequest(c)
        /\ StartsWith(req[c].path, req[c].fn.prefix)
        /\ ~Matching(req[c].fn.prefix, req[c].path)
        /\ result[c] = Rejected(Err("upstream", 0))
        /\ CountOf(c, "next", 0) = 1

Reached(c, id) == CountOf(c, "enter", id) > 0

\* the handlers a request reaches: the applications whose mount prefixes,
\* one after the other, lead the leading part of /a/b/c that is requested
CascadeReached(path) ==
    {id \in 1..3 : Len(path) >= 2 * id
                   /\ (Len(path) = 2 * id \/ path[2 * id + 1] = Slash)}

\* C9: with A mounted at /a, B inside A at /b and C inside B at /c, a
\* request for /a/b/c reaches C's handler with path "/", one for /a/b
\* reaches B's but not C's, one for /a reaches A's but not B's or C's, one
\* for / reaches none, and context.path is the request path again once the
\* outermost mounted callable has settled.
C9_Cascade ==
    \A c \in Chains :
        req[c] \in CascadePrograms =>
            /\ \A id \in 1..3 :
                  Reached(c, id) => id \in CascadeReached(req[c].path)
            /\ \A i \in DOMAIN call[c] :
                  call[c][i].id = 3 /\ req[c].path = NestedPath =>
                      call[c][i].path = <<Slash>>
            /\ Settled(c) =>
                  /\ \A id \in CascadeReached(req[c].path) : Reached(c, id)
                  /\ ctxs[c].path = req[c].path
                  /\ result[c] = Resolved

\* the request for /a/b/c has reached C's handler and has settled
C9_Witness ==
    \E c \in Chains :
        /\ req[c] \in CascadePrograms
        /\ req[c].path = NestedPath
        /\ Reached(c, 3)
        /\ Settled(c)

\* C10: convert returns the very callable it is given when that is not a
\* generator function, and convert.back the very callable it is given when
\* that is one; the wrapper either makes is of the target style, so that
\* converting it again returns it unchanged; and what a wrapper wraps is
\* never of the target style already.
C10_IdentityPreserving ==
    /\ api.op = "convert" /\ TypeOf(api.arg) = "function" =>
          /\ CtorName(api.arg) # "GeneratorFunction" => api.res = api.arg
          /\ CtorName(api.res) # "GeneratorFunction"
          /\ api.res # api.arg =>
                api.res.mw = api.arg /\ CtorName(api.arg) = "GeneratorFunction"
    /\ api.op = "back" /\ TypeOf(api.arg) = "function" =>
          /\ CtorName(api.arg) = "GeneratorFunction" => api.res = api.arg
          /\ CtorName(api.res) = "GeneratorFunction"
          /\ api.res # api.arg =>
                api.res.mw = api.arg /\ CtorName(api.arg) # "GeneratorFunction"

\* convert was applied to a wrapper that convert had made, and returned it
C10_Witness ==
    /\ api.op = "convert"
    /\ api.arg.kind = "converted"
    /\ api.res = api.arg

InvalidMiddleware == ApiThrow("middleware must be a function")

NothingRan ==
    /\ tasks = <<>>
    /\ call = [c \in Chains |-> <<>>]
    /\ gens = <<>> /\ comps = <<>> /\ called = <<>>

\* C11: convert and convert.back fail with the error for a non-callable
\* argument, convert.compose fails with it when an element of its list is
\* not callable; nothing is produced but the error, and no middleware has
\* been invoked.
C11_FailFast ==
    /\ api.op \in {"convert", "back"} /\ TypeOf(api.arg) # "function" =>
          api.res = InvalidMiddleware /\ NothingRan
    /\ /\ api.op = "compose"
       /\ \E i \in DOMAIN api.arg.arr : TypeOf(api.arg.arr[i]) # "function"
       => api.res = InvalidMiddleware /\ NothingRan

\* convert.compose was given a function and then a value that is not one
C11_Witness ==
    /\ api.op = "compose"
    /\ Len(api.arg.arr) = 2
    /\ TypeOf(api.arg.arr[1]) = "function"
    /\ TypeOf(api.arg.arr[2]) # "function"
    /\ api.res.kind = "error"

\* the target as mount calls it: the composition of its middleware list if
\* it has one, the target itself otherwise
Normalized(app) ==
    IF app.kind = "app" THEN KoaCompose(app.middleware) ELSE app

DefaultMounted(c) ==
    req[c] # NoReq /\ req[c].fn \in {Normalized(app) : app \in MountTargets}

\* C12: mount fails for every string prefix that does not begin with "/",
\* the empty string included; with a first argument that is not a string,
\* or with the prefix "/", it returns the normalized target itself, and a
\* call of that callable leaves context.path and context.mountPath alone.
C12_MountPrefix ==
    /\ /\ api.op = "mount"
       /\ api.arg.prefix = <<>> \/ api.arg.prefix[1] # Slash
       => api.res.kind = "error" /\ NothingRan
    /\ api.op = "mount" /\ api.arg.prefix = <<Slash>> =>
          api.res = Normalized(api.arg.app)
    /\ api.op = "mountdefault" => api.res = Normalized(api.arg.app)
    /\ \A c \in Chains :
          DefaultMounted(c) =>
              ctxs[c] = [path |-> req[c].path, mountPath |-> <<>>]

\* what mount(app) returned has run on a path other than "/" and settled
C12_Witness ==
    \E c \in Chains :
        /\ DefaultMounted(c)
        /\ req[c].fn.kind = "composed"
        /\ Len(req[c].path) > 1
        /\ CountOf(c, "exit", 2) = 1
        /\ Settled(c)

\* mount was given the empty string as prefix
C12_WitnessEmpty ==
    api.op = "mount" /\ api.arg.prefix = <<>> /\ api.res.kind = "error"

\* C13: every step of a chain, modern (first argument) or legacy (`this`),
\* is given the context object the chain was invoked with: every marker is
\* recorded by a step that holds the context of its chain.
C13_SharedContext ==
    \A c \in Chains :
        \A i \in DOMAIN call[c] : call[c][i].ctx = c

\* a chain of a legacy step, a modern step and a step made by convert.back
\* has run to its end, each step having recorded both its markers
C13_Witness ==
    \E c \in Chains :
        /\ req[c].fn.kind = "composed"
        /\ Len(req[c].fn.middleware) = 3
        /\ req[c].fn.middleware[1].kind = "converted"
        /\ req[c].fn.middleware[2].kind = "user"
        /\ req[c].fn.middleware[3].kind = "converted"
        /\ req[c].fn.middleware[3].mw.kind = "back"
        /\ Settled(c)
        /\ \A id \in 1..3 : CountOf(c, "enter", id) = 1 /\ CountOf(c, "exit", id) = 1

\* C14: the wrapper made by convert or convert.back has as _name the _name
\* of the original when that is set and not empty, the name of the original
\* otherwise; a callable returned unchanged keeps its name and _name.
C14_NamePropagation ==
    api.op \in {"convert", "back"} /\ TypeOf(api.arg) = "function" =>
        IF api.res.kind \in {"converted", "back"} /\ api.res.mw = api.arg
        THEN api.res._name = IF api.arg._name # "" THEN api.arg._name
                             ELSE api.arg.name
        ELSE api.res.name = api.arg.name /\ api.res._name = api.arg._name

\* convert.back has wrapped a function with a name and another _name
C14_Witness ==
    /\ api.op = "back"
    /\ api.arg.name = "testing" /\ api.arg._name = "shown"
    /\ api.res.kind = "back" /\ api.res.mw = api.arg
    /\ api.res._name = "shown"

\* convert has wrapped a generator function that has a name and no _name
C14_WitnessName ==
    /\ api.op = "convert"
    /\ api.arg.name = "testing" /\ api.arg._name = ""
    /\ api.res.kind = "converted" /\ api.res.mw = api.arg
    /\ api.res._name = "testing"

\* a wrapper made by convert of a legacy middleware, called by itself
LegacyWrapped(c) ==
    req[c].fn.kind = "converted" /\ req[c].fn.mw.kind = "user"

\* how often the legacy middleware yields the continuation token
Yields(c) ==
    LET body == req[c].fn.mw.body IN
    Cardinality({i \in DOMAIN body : body[i] \in {"next", "nextstar"}})

\* C15: one invocation of a wrapper made by convert calls the caller's
\* continuation at most once: not at all when the legacy middleware never
\* yields the token (and the promise of the wrapper still resolves), once
\* when it yields the token once, and once when it yields it again, the
\* later yield resuming at once.
C15_ContinuationAtMostOnce ==
    \A c \in Chains :
        LegacyWrapped(c) =>
            /\ CountOf(c, "next", 0) <= 1
            /\ Settled(c) =>
                  /\ CountOf(c, "next", 0) = IF Yields(c) = 0 THEN 0 ELSE 1
                  /\ req[c].fn.mw.body = <<"enter">> => result[c] = Resolved
                  /\ Yields(c) = 2 /\ req[c].next.settle = "resolve" =>
                        /\ result[c] = Resolved
                        /\ Markers(c) = <<<<"enter", 1>>, <<"next", 0>>,
                                          <<"exit", 1>>>>

\* a legacy middleware that yields the token twice has run to its end
C15_Witness ==
    \E c \in Chains :
        /\ LegacyWrapped(c)
        /\ Yields(c) = 2
        /\ Settled(c)
        /\ CountOf(c, "next", 0) = 1
        /\ CountOf(c, "exit", 1) = 1

\* a legacy middleware that never yields the token has run to its end
C15_WitnessNone ==
    \E c \in Chains :
        /\ LegacyWrapped(c)
        /\ Yields(c) = 0
        /\ result[c] = Resolved
        /\ CountOf(c, "enter", 1) = 1

\* C16: when the target has a middleware list, mount composes it as
\* convert.compose does, every element converted by convert: a legacy
\* middleware of a mounted application runs as a legacy middleware, its
\* markers recorded as under convert.compose.
C16_MountComposesAsCompose ==
    /\ /\ api.op = "mount"
       /\ api.res.kind = "mounted"
       /\ api.arg.app.kind = "app"
       => api.res.downstream = Compose(api.arg.app.middleware)
    /\ \A c \in Chains :
          /\ MountedRequest(c)
          /\ req[c].fn.downstream.kind = "composed"
          /\ Matching(req[c].fn.prefix, req[c].path)
          /\ Settled(c)
          => \A i \in DOMAIN req[c].fn.downstream.middleware :
                LET id == UserOf(req[c].fn.downstream.middleware[i]).id IN
                CountOf(c, "enter", id) = 1

\* every flow of control of the chain has come to its end
Quiet(c) ==
    /\ Settled(c)
    /\ \A t \in DOMAIN tasks : tasks[t].chain = c => tasks[t].ctl.op = "done"

\* what a chain shows: its markers with the path each was recorded under,
\* the outcome of its promise, and its context
Seen(c) ==
    [markers |-> [i \in DOMAIN call[c] |->
                     <<call[c][i].ev, call[c][i].id, call[c][i].path,
                       call[c][i].err.msg>>],
     result |-> result[c],
     context |-> ctxs[c]]

\* what each request of PairList shows when it runs with no other request
SeenAlone ==
    <<[markers |-> <<<<"enter", 1, <<Slash>>, "">>,
                      <<"enter", 2, <<Slash>>, "">>,
                      <<"enter", 3, <<Slash>>, "">>,
                      <<"exit", 3, <<Slash>>, "">>,
                      <<"catch", 1, <<Slash>>, "next() called multiple times">>>>,
       result |-> Resolved,
       context |-> [path |-> <<Slash>>, mountPath |-> <<>>]],
      [markers |-> <<<<"enter", 1, <<Slash>>, "">>,
                      <<"enter", 2, <<Slash>>, "">>,
                      <<"enter", 3, <<Slash>>, "">>,
                      <<"exit", 3, <<Slash>>, "">>>>,
       result |-> Rejected(MultipleCalls),
       context |-> [path |-> <<Slash>>, mountPath |-> <<>>]],
      [markers |-> <<<<"enter", 1, <<Slash>>, "">>,
                      <<"enter", 2, <<Slash>>, "">>,
                      <<"enter", 3, <<Slash>>, "">>,
                      <<"exit", 2, <<Slash>>, "">>,
                      <<"exit", 1, <<Slash>>, "">>>>,
       result |-> Resolved,
       context |-> [path |-> <<Slash>>, mountPath |-> <<>>]],
      [markers |-> <<<<"enter", 1, <<Slash, "a", Slash, "b">>, "">>,
                      <<"enter", 2, <<Slash, "b">>, "">>,
                      <<"enter", 3, <<Slash, "a", Slash, "b">>, "">>,
                      <<"exit", 3, <<Slash, "a", Slash, "b">>, "">>,
                      <<"exit", 2, <<Slash, "b">>, "">>,
                      <<"exit", 1, <<Slash, "a", Slash, "b">>, "">>>>,
       result |-> Resolved,
       context |-> [path |-> <<Slash, "a", Slash, "b">>,
                   mountPath |-> <<Slash, "a">>]],
      [markers |-> <<<<"enter", 1, <<Slash, "a">>, "">>,
                      <<"enter", 2, <<Slash>>, "">>,
                      <<"enter", 3, <<Slash, "a">>, "">>,
                      <<"exit", 3, <<Slash, "a">>, "">>,
                      <<"exit", 2, <<Slash>>, "">>,
                      <<"exit", 1, <<Slash, "a">>, "">>>>,
       result |-> Resolved,
       context |-> [path |-> <<Slash, "a">>, mountPath |-> <<Slash, "a">>]],
      [markers |-> <<<<"enter", 2, <<Slash>>, "">>>>,
       result |-> Thrown(Err("error", 2)),
       context |-> [path |-> <<Slash>>, mountPath |-> <<Slash, "a">>]],
      [markers |-> <<>>,
       result |-> Thrown(NotAFunction),
       context |-> [path |-> <<Slash, "b">>, mountPath |-> <<>>]],
      [markers |-> <<>>,
       result |-> Resolved,
       context |-> [path |-> <<Slash, "a">>, mountPath |-> <<Slash, "a">>]],
      [markers |-> <<<<"enter", 2, <<"b">>, "">>,
                      <<"next", 0, <<Slash, "a", Slash, "b">>, "">>>>,
       result |-> Rejected(Err("upstream", 0)),
       context |-> [path |-> <<Slash, "a", Slash, "b">>,
                   mountPath |-> <<Slash, "a", Slash>>]]>>

ProgramOf(c) == CHOOSE i \in DOMAIN PairList : PairList[i] = req[c]

\* C17: two chains with contexts of their own, run in any interleaving
\* through the same callables, each show what they show alone: the markers
\* in the same order and under the same paths, the same outcome (that of
\* the guard of convert.back included), the same context.path and
\* context.mountPath at the end.
C17_NoInterference ==
    \A c \in Chains :
        req[c] # NoReq =>
            /\ IsPrefix(Seen(c).markers, SeenAlone[ProgramOf(c)].markers)
            /\ \A i \in DOMAIN call[c] : call[c][i].ctx = c
            /\ Quiet(c) => Seen(c) = SeenAlone[ProgramOf(c)]

\* both chains are in the downstream of a convert.back wrapper at the same
\* time, each having set its own flag
C17_Witness ==
    /\ req[1] = PairList[1] /\ req[2] = PairList[2]
    /\ result[1] = Pending /\ result[2] = Pending
    /\ called = <<TRUE, TRUE>>
    /\ \A c \in Chains : CountOf(c, "enter", 3) = 1 /\ CountOf(c, "exit", 3) = 0

\* both chains are inside the same mounted callable at the same time, on
\* different paths
C17_WitnessMount ==
    /\ req[1] = PairList[4] /\ req[2] = PairList[5]
    /\ result[1] = Pending /\ result[2] = Pending
    /\ ctxs[1].path = <<Slash, "b">> /\ ctxs[2].path = <<Slash>>

BeginsWithSlash(path) == path # <<>> /\ path[1] = Slash

\* C18: for every mount prefix that begins with "/", with a trailing slash
\* or without, and every request path that begins with "/", every value
\* context.path takes while the mounted callable runs begins with "/", the
\* rewritten path the target sees in particular.
C18_PathsBeginWithSlash ==
    /\ api.op = "match" /\ api.res.matched => BeginsWithSlash(api.res.newPath)
    /\ \A c \in Chains :
          MountRequest(c) =>
              /\ BeginsWithSlash(ctxs[c].path)
              /\ \A i \in DOMAIN call[c] : BeginsWithSlash(call[c][i].path)

\* mounts one after the other in a chain
Sequential(c) ==
    /\ req[c].fn.kind = "composed"
    /\ Len(req[c].fn.middleware) = 2
    /\ req[c].fn.middleware[1].kind = "mounted"
    /\ req[c].fn.middleware[2].kind = "mounted"

\* the prefix of the last of the mounts of the chain that match the path
LastMatched(c) ==
    LET mounts == req[c].fn.middleware IN
    IF Matching(mounts[2].prefix, req[c].path) THEN mounts[2].prefix
    ELSE IF Matching(mounts[1].prefix, req[c].path) THEN mounts[1].prefix
    ELSE <<>>

\* the prefix at which the application of handler id is mounted in the
\* cascade
CascadePrefix(id) == <<Slash, NestedPath[2 * id]>>

\* C19: on a match the mounted callable sets context.mountPath to its
\* prefix before the target runs, and never restores it: it is that prefix
\* while the target and the upstream continuation run and after the
\* mounted callable has settled; with mounts inside or after one another it
\* is the prefix of the mount that matched last.
C19_MountPathKept ==
    \A c \in Chains :
        /\ MountRequest(c) /\ Matching(MountOf(c).prefix, req[c].path) =>
              /\ InChain(c) /\ CountOf(c, "enter", 1) = 0 =>
                    ctxs[c].mountPath = <<>>
              /\ \/ CountOf(c, "enter", 2) > 0
                 \/ UpstreamRuns(c) > 0
                 \/ Settled(c)
                 => ctxs[c].mountPath = MountOf(c).prefix
        /\ Sequential(c) =>
              /\ \A id \in 1..2 :
                    Reached(c, id) /\ ~Matching(req[c].fn.middleware[2].prefix,
                                                req[c].path)
                    => ctxs[c].mountPath = req[c].fn.middleware[1].prefix
              /\ Reached(c, 2) \/ Settled(c) =>
                    ctxs[c].mountPath = LastMatched(c)
        /\ req[c] \in CascadePrograms =>
              LET deepest == Cardinality(CascadeReached(req[c].path)) IN
              /\ deepest = 0 => ctxs[c].mountPath = <<>>
              /\ \A id \in 1..3 :
                    Reached(c, id) =>
                        \E j \in id..deepest :
                            ctxs[c].mountPath = CascadePrefix(j)
              /\ deepest > 0 /\ (Reached(c, deepest) \/ Settled(c)) =>
                    ctxs[c].mountPath = CascadePrefix(deepest)

\* a mounted callable in a chain has settled after its target and the step
\* after it have run: context.path is the request path again,
\* context.mountPath still the prefix
C19_Witness ==
    \E c \in Chains :
        /\ InChain(c)
        /\ result[c] = Resolved
        /\ CountOf(c, "exit", 2) = 1
        /\ CountOf(c, "enter", 3) = 1
        /\ ctxs[c].path = req[c].path
        /\ ctxs[c].mountPath = MountOf(c).prefix

\* two mounts after one another have both matched and the chain has settled
C19_WitnessSequential ==
    \E c \in Chains :
        /\ Sequential(c)
        /\ Settled(c)
        /\ Reached(c, 1) /\ Reached(c, 2)
        /\ ctxs[c].mountPath = req[c].fn.middleware[2].prefix

\* the body of the last middleware of the chain
LastBody(c) ==
    UserOf(req[c].fn.middleware[Len(req[c].fn.middleware)]).body

\* a chain of steps that await their continuation, whose last step is
\* body: it waits for a promise before it records its exit marker
Awaiting(c, body) ==
    /\ req[c].fn.kind = "composed"
    /\ Len(req[c].fn.middleware) \in 1..3
    /\ \A i \in DOMAIN req[c].fn.middleware :
          req[c].fn.middleware[i].kind \in {"user", "converted"}
    /\ \A i \in 1..(Len(req[c].fn.middleware) - 1) :
          UserOf(req[c].fn.middleware[i]).body \in
              {Onion, <<"enter", "nextstar", "exit">>}
    /\ LastBody(c) = body

Stalls(c) == Awaiting(c, <<"enter", "stall", "exit">>)

Waits(c) == Awaiting(c, <<"enter", "wait", "exit">>)

\* the promise the last step waits for has not settled
DownstreamPending(c) == CountOf(c, "exit", Len(req[c].fn.middleware)) = 0

\* C20: the promise of a converted or composed chain whose steps await
\* their continuation settles if and only if the promise of the
\* continuation does: when every promise a step waits for settles in the
\* end, the promise of the chain settles in the end; while one has not
\* settled, no code after a call of the continuation has run and the
\* promise of the chain has not settled, and when it never settles they
\* never do.
C20_SettlesWithContinuation ==
    /\ \A c \in Chains :
          (result[c] = Pending /\ ~Stalls(c)) ~> Settled(c)
    /\ [](\A c \in Chains :
            (Stalls(c) \/ Waits(c)) /\ DownstreamPending(c) =>
                /\ ~Settled(c)
                /\ \A i \in DOMAIN call[c] : call[c][i].ev # "exit")
    /\ [](\A c \in Chains : Stalls(c) => DownstreamPending(c))

\* a chain of a legacy step, a convert.back step and a step that waits for
\* a promise that never settles hangs: all three are entered, none has
\* gone on
C20_Witness ==
    \E c \in Chains :
        /\ Stalls(c)
        /\ Len(req[c].fn.middleware) = 3
        /\ req[c].fn.middleware[1].kind = "converted"
        /\ req[c].fn.middleware[2].kind = "converted"
        /\ req[c].fn.middleware[2].mw.kind = "back"
        /\ \A id \in 1..3 : CountOf(c, "enter", id) = 1
        /\ result[c] = Pending

\* a chain whose last step waited for a promise that settled has settled
C20_WitnessSettles ==
    \E c \in Chains :
        /\ Waits(c)
        /\ Len(req[c].fn.middleware) = 3
        /\ result[c] = Resolved
        /\ \A id \in 1..3 : CountOf(c, "exit", id) = 1

====
